---- MODULE Spec2Model ----
(***************************************************************************)
(* A model of the struct-to-map serializer of src/serializer.go (type      *)
(* Base, transform-bound variant, lines 1-267): a builder holding an       *)
(* ordered list of map modifiers and an optional key converter, and the    *)
(* Transform / TransformArray / MustTransformArray calls that run the      *)
(* modifiers against a record.  The construction-bound variant of lines    *)
(* 269-428 (New(entity), Result()) is modelled next to it.                 *)
(*                                                                         *)
(* Keys are sequences of one-character strings, so that the key casing     *)
(* functions work on the characters.  Field values are strings.  A record  *)
(* (a Go struct value) is a function from its field names to its values.   *)
(* A jsonMap is a function from a finite set of keys to values.            *)
(***************************************************************************)
EXTENDS Integers, Sequences, FiniteSets, TLC

VARIABLES defaultCase, b, last, ser, chain, gor

vars == <<defaultCase, b, last, ser, chain, gor>>

(***************************************************************************)
(* Bounds of the model.                                                    *)
(***************************************************************************)
\* the longest modifier list a builder is given
MaxMods == 3
\* the longest slice or array handed to TransformArray
MaxArr == 2

(***************************************************************************)
(* Keys                                                                    *)
(***************************************************************************)
ID == <<"I", "D">>
Email == <<"E", "m", "a", "i", "l">>
HideEmail == <<"H", "i", "d", "e", "E", "m", "a", "i", "l">>
FirstName == <<"F", "i", "r", "s", "t", "N", "a", "m", "e">>
LastName == <<"L", "a", "s", "t", "N", "a", "m", "e">>
FullName == <<"F", "u", "l", "l", "N", "a", "m", "e">>
\* a name that is a field of no record
Nope == <<"N", "o", "p", "e">>

(***************************************************************************)
(* Records: the User values of the tests (scalar fields only).             *)
(***************************************************************************)
Fields == {ID, Email, HideEmail, FirstName, LastName}

user ==
  [f \in Fields |->
     CASE f = ID -> "1"
       [] f = Email -> "x@example.com"
       [] f = HideEmail -> "true"
       [] f = FirstName -> "Foo"
       [] f = LastName -> "Bar"]

otherUser ==
  [f \in Fields |->
     CASE f = ID -> "2"
       [] f = Email -> ""
       [] f = HideEmail -> "false"
       [] f = FirstName -> "Ping"
       [] f = LastName -> "Pong"]

Records == {user, otherUser}

\* the two time.Time values of the tests, written as Time.String() prints
\* them
createdAt == "2015-05-13 15:30:00 +0000 UTC"

currentTime == "2015-05-15 17:41:00 +0000 UTC"

\* the records of ExampleSerializer and ArraySerializer, with their time
\* fields
CreatedAt == <<"C", "r", "e", "a", "t", "e", "d", "A", "t">>
UpdatedAt == <<"U", "p", "d", "a", "t", "e", "d", "A", "t">>
CurrentTime == <<"C", "u", "r", "r", "e", "n", "t", "T", "i", "m", "e">>

WithTimes(u) ==
  [f \in Fields \cup {CreatedAt, UpdatedAt} |->
     IF f \in Fields THEN u[f] ELSE createdAt]

ExampleRecords == {WithTimes(user), WithTimes(otherUser)}

\* the nil interface value held by Base.raw before the first Transform
NilEntity == [f \in {} |-> ""]

(***************************************************************************)
(* jsonMap                                                                 *)
(***************************************************************************)
EmptyMap == [k \in {} |-> ""]

MapSet(m, key, value) ==
  [k \in (DOMAIN m) \cup {key} |-> IF k = key THEN value ELSE m[k]]

\* a variant in which deleting a key the mapping does not have empties it
MapDeleteOrClear(m, key) ==
  IF key \in DOMAIN m THEN [k \in (DOMAIN m) \ {key} |-> m[k]]
  ELSE [k \in {} |-> ""]

MapDelete(m, key) == [k \in (DOMAIN m) \ {key} |-> m[k]]

(***************************************************************************)
(* Predicates and value converters                                         *)
(***************************************************************************)
\* t.(time.Time).Format(time.RFC3339), for the two times of the tests
FormatRFC3339(t) ==
  CASE t = createdAt -> "2015-05-13T15:30:00Z"
    [] t = currentTime -> "2015-05-15T17:41:00Z"

Predicates == {"alwaysTrue", "alwaysFalse", "hideEmail"}

ApplyPredicate(p, u) ==
  CASE p = "alwaysTrue" -> TRUE
    [] p = "alwaysFalse" -> FALSE
    [] p = "hideEmail" -> u[HideEmail] = "true"

\* identity, the quoting converter given to PickFunc, the full name computed
\* from the whole record, and the closure of AddIf that returns its value
ApplyValueConverter(c, value, u) ==
  CASE c = "identity" -> u
    [] c = "quote" -> "<" \o u \o ">"
    [] c = "format" -> FormatRFC3339(u)
    [] c = "fullName" -> u[FirstName] \o " " \o u[LastName]
    [] c = "const" -> value

(***************************************************************************)
(* Key casing (the xstrings functions used by lines 184-198, on the        *)
(* characters of a key)                                                    *)
(***************************************************************************)
UpperChars ==
  <<"A", "B", "C", "D", "E", "F", "G", "H", "I", "J", "K", "L", "M",
    "N", "O", "P", "Q", "R", "S", "T", "U", "V", "W", "X", "Y", "Z">>

LowerChars ==
  <<"a", "b", "c", "d", "e", "f", "g", "h", "i", "j", "k", "l", "m",
    "n", "o", "p", "q", "r", "s", "t", "u", "v", "w", "x", "y", "z">>

IsUpper(c) == \E i \in DOMAIN UpperChars : UpperChars[i] = c

IsLower(c) == \E i \in DOMAIN LowerChars : LowerChars[i] = c

ToLower(c) ==
  IF IsUpper(c)
    THEN LowerChars[CHOOSE i \in DOMAIN UpperChars : UpperChars[i] = c]
    ELSE c

ToUpper(c) ==
  IF IsLower(c)
    THEN UpperChars[CHOOSE i \in DOMAIN LowerChars : LowerChars[i] = c]
    ELSE c

IsSeparator(c) == c \in {"_", " ", "-"}

\* a variant that makes the characters lower case and sets no underscore
RECURSIVE LowerFrom(_, _)
LowerFrom(k, i) ==
  IF i > Len(k) THEN <<>> ELSE <<ToLower(k[i])>> \o LowerFrom(k, i + 1)

ToLowerOnly(k) == LowerFrom(k, 1)

\* xstrings.ToSnakeCase: an upper case character starts a word, a run of
\* upper case characters is one abbreviation whose last character starts the
\* next word when a lower case character follows it (HTTPServer gives
\* http_server); space and hyphen become underscores.
RECURSIVE SnakeFrom(_, _)
SnakeFrom(k, i) ==
  IF i > Len(k) THEN <<>>
  ELSE
    LET c == k[i]
        startsWord ==
          /\ i > 1
          /\ \/ ~IsUpper(k[i - 1]) /\ ~IsSeparator(k[i - 1])
             \/ IsUpper(k[i - 1]) /\ i < Len(k) /\ ~IsUpper(k[i + 1])
                  /\ ~IsSeparator(k[i + 1])
    IN  IF IsUpper(c)
          THEN (IF startsWord THEN <<"_">> ELSE <<>>) \o <<ToLower(c)>>
                 \o SnakeFrom(k, i + 1)
          ELSE <<(IF IsSeparator(c) THEN "_" ELSE c)>> \o SnakeFrom(k, i + 1)

ToSnakeCase(k) == SnakeFrom(k, 1)

\* xstrings.ToCamelCase: the first character and every character behind an
\* underscore are made upper case; a single underscore between two words is
\* removed; leading, trailing and doubled underscores stay; other characters
\* are kept as they are.
RECURSIVE CamelFrom(_, _, _)
CamelFrom(k, i, leading) ==
  IF i > Len(k) THEN <<>>
  ELSE
    LET c == k[i]
    IN  IF c = "_"
          THEN IF leading \/ i = Len(k) \/ k[i + 1] = "_"
                 THEN <<c>> \o CamelFrom(k, i + 1, leading)
                 ELSE CamelFrom(k, i + 1, leading)
          ELSE <<(IF i = 1 \/ k[i - 1] = "_" THEN ToUpper(c) ELSE c)>>
                 \o CamelFrom(k, i + 1, FALSE)

ToCamelCase(k) == CamelFrom(k, 1, TRUE)

\* a variant that leaves the first character as it is
KeepFirstRune(k) == k

FirstRuneToLower(k) ==
  IF Len(k) = 0 THEN k ELSE <<ToLower(k[1])>> \o SubSeq(k, 2, Len(k))

\* the converter of TestConvertKeys: "dummy_" + s
Dummy(k) == <<"d", "u", "m", "m", "y", "_">> \o k

\* the key converters a builder can hold; "nil" is the nil func of a builder
\* that has none
KeyConverters == {"nil", "pascal", "camel", "snake", "dummy"}

ApplyKeyConverter(kc, k) ==
  CASE kc = "pascal" -> ToCamelCase(k)
    [] kc = "camel" -> FirstRuneToLower(ToCamelCase(ToSnakeCase(k)))
    [] kc = "snake" -> ToSnakeCase(k)
    [] kc = "dummy" -> Dummy(k)

(***************************************************************************)
(* Modifiers.  A modifier is the closure a builder method appends; it is   *)
(* described by the method that built it and the values it captured.  The  *)
(* closure also captures the builder b itself (a pointer) and reads b.raw  *)
(* and b.reflected when it runs.                                           *)
(***************************************************************************)
PickAllModifier ==
  [kind |-> "PickAll", p |-> "alwaysTrue", c |-> "none", keys |-> <<>>,
   value |-> ""]

PickFuncIfModifier(p, converter, keys) ==
  [kind |-> "PickFuncIf", p |-> p, c |-> converter, keys |-> keys,
   value |-> ""]

OmitIfModifier(p, keys) ==
  [kind |-> "OmitIf", p |-> p, c |-> "none", keys |-> keys, value |-> ""]

AddFuncIfModifier(p, key, f, value) ==
  [kind |-> "AddFuncIf", p |-> p, c |-> f, keys |-> <<key>>, value |-> value]

\* the outcome of running a modifier: the mapping it returns, or a panic
Returned(m) == [ok |-> TRUE, m |-> m]

Panicked == [ok |-> FALSE, m |-> EmptyMap]

\* structs.Map(b.raw): every exported field under its name, value as it is
StructsMap(raw) == [f \in DOMAIN raw |-> raw[f]]

\* a variant that adds the fields to the mapping it is given
PickAllMerging(bb, m) ==
  [k \in (DOMAIN m) \cup (DOMAIN bb.raw) |->
     IF k \in DOMAIN bb.raw THEN bb.raw[k] ELSE m[k]]

\* lines 201-203: the closure of PickAll returns structs.Map(b.raw) and
\* drops the mapping it is given
PickAllClosure(bb, m) == StructsMap(bb.raw)

\* a variant that passes over a name that is no field
RECURSIVE PickLoopSkipping(_, _, _, _, _)
PickLoopSkipping(bb, converter, keys, i, m) ==
  IF i > Len(keys) THEN Returned(m)
  ELSE IF keys[i] \notin DOMAIN bb.reflected
    THEN PickLoopSkipping(bb, converter, keys, i + 1, m)
  ELSE PickLoopSkipping(bb, converter, keys, i + 1,
                        MapSet(m, keys[i],
                               ApplyValueConverter(converter, "",
                                                   bb.reflected[keys[i]])))

\* lines 222-224: m[key] = converter(b.reflected.FieldByName(key).Interface())
\* for each key in turn; FieldByName of a name that is no field gives the
\* zero Value, whose Interface() panics
RECURSIVE PickLoop(_, _, _, _, _)
PickLoop(bb, converter, keys, i, m) ==
  IF i > Len(keys) THEN Returned(m)
  ELSE IF keys[i] \notin DOMAIN bb.reflected THEN Panicked
  ELSE PickLoop(bb, converter, keys, i + 1,
                MapSet(m, keys[i],
                       ApplyValueConverter(converter, "", bb.reflected[keys[i]])))

\* the snake case and camel case spellings of FirstName, as a caller writes
\* them
FirstNameSnake == <<"f", "i", "r", "s", "t", "_", "n", "a", "m", "e">>

FirstNameCamel == <<"f", "i", "r", "s", "t", "N", "a", "m", "e">>

\* a key the caller adds that differs from the field Email by its case alone
email == <<"e", "m", "a", "i", "l">>

\* a variant that deletes the first key alone
OmitFirstOnly(keys, i, m) ==
  IF Len(keys) = 0 THEN m ELSE MapDelete(m, keys[1])

\* lines 238-240: delete(m, key) for each key in turn
RECURSIVE OmitLoop(_, _, _)
OmitLoop(keys, i, m) ==
  IF i > Len(keys) THEN m ELSE OmitLoop(keys, i + 1, MapDelete(m, keys[i]))

\* a variant without the if p(b.raw) around the closure's body
GateAlways(bb, mod) == TRUE

\* the predicate gate of the conditional modifiers: p(b.raw), evaluated when
\* the modifier runs
Gate(bb, mod) == ApplyPredicate(mod.p, bb.raw)

\* a variant in which Omit deletes the entries whose converted key is one of
\* the names given
ApplyModifierCased(bb, mod, m) ==
  CASE mod.kind = "PickAll" -> Returned(PickAllClosure(bb, m))
    [] mod.kind = "PickFuncIf" ->
         IF Gate(bb, mod) THEN PickLoop(bb, mod.c, mod.keys, 1, m)
         ELSE Returned(m)
    [] mod.kind = "OmitIf" ->
         IF Gate(bb, mod)
           THEN Returned(
                  [k \in {k2 \in DOMAIN m :
                            (IF bb.keyConverter = "nil" THEN k2
                             ELSE ApplyKeyConverter(bb.keyConverter, k2))
                              \notin {mod.keys[i] : i \in DOMAIN mod.keys}}
                     |-> m[k]])
           ELSE Returned(m)
    [] mod.kind = "AddFuncIf" ->
         IF Gate(bb, mod)
           THEN Returned(MapSet(m, mod.keys[1],
                                ApplyValueConverter(mod.c, mod.value, bb.raw)))
           ELSE Returned(m)

ApplyModifier(bb, mod, m) ==
  CASE mod.kind = "PickAll" -> Returned(PickAllClosure(bb, m))
    [] mod.kind = "PickFuncIf" ->
         IF Gate(bb, mod) THEN PickLoop(bb, mod.c, mod.keys, 1, m)
         ELSE Returned(m)
    [] mod.kind = "OmitIf" ->
         IF Gate(bb, mod) THEN Returned(OmitLoop(mod.keys, 1, m))
         ELSE Returned(m)
    [] mod.kind = "AddFuncIf" ->
         IF Gate(bb, mod)
           THEN Returned(MapSet(m, mod.keys[1],
                                ApplyValueConverter(mod.c, mod.value, bb.raw)))
           ELSE Returned(m)

(***************************************************************************)
(* The builder (type Base, lines 106-111)                                  *)
(***************************************************************************)
KeyCases == {"NotSet", "CamelCase", "PascalCase", "SnakeCase"}

\* lines 146-157: the converter New installs for the default case
addDefaultKeyConverter(case) ==
  CASE case = "PascalCase" -> "pascal"
    [] case = "SnakeCase" -> "snake"
    [] case = "CamelCase" -> "camel"
    [] OTHER -> "nil"

\* lines 114-118: &Base{} and the default key converter
NewBase(case) ==
  [raw |-> NilEntity, reflected |-> NilEntity, modifiers |-> <<>>,
   keyConverter |-> addDefaultKeyConverter(case)]

\* a variant that binds b.raw once, on the first Transform, and afterwards
\* renews b.reflected alone
RebindRawOnce(bb, entity) ==
  IF bb.raw = NilEntity
    THEN [bb EXCEPT !.raw = entity, !.reflected = entity]
    ELSE [bb EXCEPT !.reflected = entity]

\* a variant that reflects the entity once and afterwards renews b.raw alone
RebindReflectedOnce(bb, entity) ==
  IF bb.raw = NilEntity
    THEN [bb EXCEPT !.raw = entity, !.reflected = entity]
    ELSE [bb EXCEPT !.raw = entity]

\* lines 121-122: Transform binds the entity as the source record
Rebind(bb, entity) == [bb EXCEPT !.raw = entity, !.reflected = entity]

\* a variant that runs the modifiers from the last registered to the first
RECURSIVE RunModifiersBackwards(_, _, _, _)
RunModifiersBackwards(bb, i, m, steps) ==
  IF i > Len(bb.modifiers) THEN [ok |-> TRUE, m |-> m, steps |-> steps]
  ELSE
    LET o == ApplyModifier(bb, bb.modifiers[Len(bb.modifiers) + 1 - i], m)
    IN  IF o.ok THEN RunModifiersBackwards(bb, i + 1, o.m, Append(steps, o.m))
        ELSE [ok |-> FALSE, m |-> EmptyMap, steps |-> steps]

\* lines 168-171: the modifiers in list order, each on the mapping the
\* previous one returned, starting from an empty mapping; steps collects the
\* mappings in between
RECURSIVE RunModifiers(_, _, _, _)
RunModifiers(bb, i, m, steps) ==
  IF i > Len(bb.modifiers) THEN [ok |-> TRUE, m |-> m, steps |-> steps]
  ELSE
    LET o == ApplyModifier(bb, bb.modifiers[i], m)
    IN  IF o.ok THEN RunModifiers(bb, i + 1, o.m, Append(steps, o.m))
        ELSE [ok |-> FALSE, m |-> EmptyMap, steps |-> steps]

\* the mappings a range over result can leave in newResult: for each
\* converted key, the value of one of the keys that convert to it.  pairs
\* holds each key of result with its converted key.
RECURSIVE KeepOne(_, _, _)
KeepOne(result, pairs, newResult) ==
  IF pairs = {} THEN {newResult}
  ELSE
    LET nk == (CHOOSE pr \in pairs : TRUE)[2]
    IN  UNION {KeepOne(result, {q \in pairs : q[2] # nk},
                       MapSet(newResult, nk, result[pr[1]])) :
                 pr \in {q \in pairs : q[2] = nk}}

\* a variant that sends every key through the key converter twice
transformedTwice(bb, result) ==
  LET conv(k) ==
        ApplyKeyConverter(bb.keyConverter,
                          ApplyKeyConverter(bb.keyConverter, k))
  IN  {[nk \in {conv(k) : k \in DOMAIN result} |->
          result[CHOOSE k \in DOMAIN result : conv(k) = nk]]}

\* lines 159-165: every key through the key converter into a new mapping.
\* The range over the Go map visits the keys in an unspecified order, so
\* when two keys convert to the same key either value can be the one kept.
transformedResult(bb, result) ==
  KeepOne(result,
          {<<k, ApplyKeyConverter(bb.keyConverter, k)>> : k \in DOMAIN result},
          EmptyMap)

\* lines 167-177: the outcomes of b.result()
result(bb) ==
  LET run == RunModifiers(bb, 1, EmptyMap, <<EmptyMap>>)
  IN  IF ~run.ok THEN {run}
      ELSE IF bb.keyConverter # "nil"
        THEN {[run EXCEPT !.m = nm] : nm \in transformedResult(bb, run.m)}
        ELSE {run}

\* lines 120-124: the outcomes of b.Transform(entity), with the builder as
\* the call leaves it
TransformOutcomes(bb, entity) ==
  LET bound == Rebind(bb, entity)
  IN  {[b |-> bound, ok |-> o.ok, m |-> o.m, steps |-> o.steps] :
         o \in result(bound)}

\* the result slice of TransformArray: var result []map[string]interface{}
\* is nil until the first append
NilSlice == [isNil |-> TRUE, elems |-> <<>>]

\* a variant that puts the new element in front
GoAppendFront(slice, x) == [isNil |-> FALSE, elems |-> <<x>> \o slice.elems]

GoAppend(slice, x) == [isNil |-> FALSE, elems |-> Append(slice.elems, x)]

\* lines 131-135: Transform on each element in index order
RECURSIVE ArrayLoop(_, _, _, _, _)
ArrayLoop(bb, elems, i, slice, steps) ==
  IF i > Len(elems)
    THEN {[b |-> bb, ok |-> TRUE, slice |-> slice, steps |-> steps]}
    ELSE UNION {IF o.ok
                  THEN ArrayLoop(o.b, elems, i + 1, GoAppend(slice, o.m),
                                 Append(steps, o.steps))
                  ELSE {[b |-> o.b, ok |-> FALSE, slice |-> NilSlice,
                         steps |-> Append(steps, o.steps)]} :
                o \in TransformOutcomes(bb, elems[i])}

\* a variant without the kind test
IsSequenceAny(entities) == TRUE

\* line 128: s.Kind() is reflect.Slice or reflect.Array
IsSequence(entities) == entities.kind \in {"slice", "array"}

(***************************************************************************)
(* The last call and what it returned.                                     *)
(*   op      the method called                                             *)
(*   arg     the entity or entities given to it                            *)
(*   status  "ok" when the call returned, "panic" when it panicked         *)
(*   maps    the mappings returned (one for Transform)                     *)
(*   isNil   whether the returned slice is nil                             *)
(*   err     the error returned                                            *)
(*   steps   for each record, the mappings the modifiers returned in turn  *)
(*   rawBefore  for Transform and the array calls, b.raw as the call began *)
(*   opBefore   for Transform and Result, the call made before it          *)
(* The other variables: ser is the builder of the construction-bound       *)
(* variant (lines 269-428), chain the calls made on it since New(entity),  *)
(* each as the modifier the same call registers on a transform-bound       *)
(* builder, and gor the goroutines that call Transform on b.               *)
(***************************************************************************)
NoArg == [kind |-> "none", elems |-> <<>>]

BuilderCall(op) ==
  [op |-> op, arg |-> NoArg, status |-> "ok", maps |-> <<>>,
   isNil |-> TRUE, err |-> "nil", steps |-> <<>>, rawBefore |-> NilEntity,
   opBefore |-> "none"]

RECURSIVE SeqsUpTo(_, _)
SeqsUpTo(S, n) ==
  IF n = 0 THEN {<<>>}
  ELSE LET shorter == SeqsUpTo(S, n - 1)
       IN  shorter \cup {Append(q, x) : q \in shorter, x \in S}

\* the arguments given to TransformArray: slices and arrays of records, and
\* the int of TestTransformArray
EntitiesArgs ==
  {[kind |-> kd, elems |-> es] :
     kd \in {"slice", "array"}, es \in SeqsUpTo(Records, MaxArr)}
    \cup {[kind |-> "int", elems |-> <<>>]}

\* the construction-bound variant (lines 332-337): New(entity) binds the
\* entity for good
BoundNewBase(entity) ==
  [raw |-> entity, reflected |-> entity, modifiers |-> <<>>]

\* a goroutine that is not inside a Transform call
Idle ==
  [pc |-> "idle", entity |-> NilEntity, i |-> 0, m |-> EmptyMap,
   overlapped |-> FALSE]

Goroutines == {"g1", "g2"}

Init ==
  /\ defaultCase = "NotSet"
  /\ b = NewBase("NotSet")
  /\ last = BuilderCall("New")
  /\ ser = BoundNewBase(user)
  /\ chain = <<>>
  /\ gor = [g \in Goroutines |-> Idle]

(***************************************************************************)
(* Builder methods.  Each appends one modifier to b.modifiers and returns  *)
(* b.  The conditional method is the one that builds the closure; the      *)
(* others call it with alwaysTrue and identity.                            *)
(***************************************************************************)
PickFuncModifier(converter, keys) ==
  PickFuncIfModifier("alwaysTrue", converter, keys)

PickIfModifier(p, keys) == PickFuncIfModifier(p, "identity", keys)

PickModifier(keys) == PickFuncModifier("identity", keys)

OmitModifier(keys) == OmitIfModifier("alwaysTrue", keys)

\* line 252: AddFuncIf with a closure that returns value
AddIfModifier(p, key, value) == AddFuncIfModifier(p, key, "const", value)

AddModifier(key, value) == AddIfModifier("alwaysTrue", key, value)

AddFuncModifier(key, f) == AddFuncIfModifier("alwaysTrue", key, f, "")

\* a variant in which the method works on a copy of the builder and returns
\* the copy
AppendToCopy(mod) ==
  /\ Len(b.modifiers) < MaxMods
  /\ UNCHANGED <<defaultCase, b, ser, chain, gor>>

\* b.modifiers = append(b.modifiers, mod)
AppendModifier(mod) ==
  /\ Len(b.modifiers) < MaxMods
  /\ b' = [b EXCEPT !.modifiers = Append(@, mod)]
  /\ UNCHANGED <<defaultCase, ser, chain, gor>>

PickAll ==
  /\ AppendModifier(PickAllModifier)
  /\ last' = BuilderCall("PickAll")

Pick(keys) ==
  /\ AppendModifier(PickModifier(keys))
  /\ last' = BuilderCall("Pick")

PickIf(p, keys) ==
  /\ AppendModifier(PickIfModifier(p, keys))
  /\ last' = BuilderCall("PickIf")

PickFunc(converter, keys) ==
  /\ AppendModifier(PickFuncModifier(converter, keys))
  /\ last' = BuilderCall("PickFunc")

PickFuncIf(p, converter, keys) ==
  /\ AppendModifier(PickFuncIfModifier(p, converter, keys))
  /\ last' = BuilderCall("PickFuncIf")

Omit(keys) ==
  /\ AppendModifier(OmitModifier(keys))
  /\ last' = BuilderCall("Omit")

OmitIf(p, keys) ==
  /\ AppendModifier(OmitIfModifier(p, keys))
  /\ last' = BuilderCall("OmitIf")

Add(key, value) ==
  /\ AppendModifier(AddModifier(key, value))
  /\ last' = BuilderCall("Add")

AddIf(p, key, value) ==
  /\ AppendModifier(AddIfModifier(p, key, value))
  /\ last' = BuilderCall("AddIf")

AddFunc(key, f) ==
  /\ AppendModifier(AddFuncModifier(key, f))
  /\ last' = BuilderCall("AddFunc")

AddFuncIf(p, key, f) ==
  /\ AppendModifier(AddFuncIfModifier(p, key, f, ""))
  /\ last' = BuilderCall("AddFuncIf")

\* b.keyConverter = keyConverter
SetKeyConverter(keyConverter) ==
  /\ b' = [b EXCEPT !.keyConverter = keyConverter]
  /\ UNCHANGED <<defaultCase, ser, chain, gor>>

ConvertKeys(keyConverter) ==
  /\ SetKeyConverter(keyConverter)
  /\ last' = BuilderCall("ConvertKeys")

UsePascalCase ==
  /\ SetKeyConverter("pascal")
  /\ last' = BuilderCall("UsePascalCase")

UseCamelCase ==
  /\ SetKeyConverter("camel")
  /\ last' = BuilderCall("UseCamelCase")

UseSnakeCase ==
  /\ SetKeyConverter("snake")
  /\ last' = BuilderCall("UseSnakeCase")

\* a variant that also gives the builder at hand the converter of the case
SetDefaultCaseRebuilding(caseType) ==
  /\ defaultCase' = caseType
  /\ b' = [b EXCEPT !.keyConverter = addDefaultKeyConverter(caseType)]
  /\ last' = BuilderCall("SetDefaultCase")
  /\ UNCHANGED <<ser, chain, gor>>

\* lines 24-26: defaultCase = caseType
SetDefaultCase(caseType) ==
  /\ defaultCase' = caseType
  /\ last' = BuilderCall("SetDefaultCase")
  /\ UNCHANGED <<b, ser, chain, gor>>

New ==
  /\ b' = NewBase(defaultCase)
  /\ last' = BuilderCall("New")
  /\ UNCHANGED <<defaultCase, ser, chain, gor>>

(***************************************************************************)
(* Transform, TransformArray, MustTransformArray                           *)
(***************************************************************************)
Transform(entity) ==
  /\ \E o \in TransformOutcomes(b, entity) :
       /\ b' = o.b
       /\ last' = [op |-> "Transform",
                   arg |-> [kind |-> "struct", elems |-> <<entity>>],
                   status |-> IF o.ok THEN "ok" ELSE "panic",
                   maps |-> IF o.ok THEN <<o.m>> ELSE <<>>,
                   isNil |-> FALSE,
                   err |-> "nil",
                   steps |-> <<o.steps>>,
                   rawBefore |-> b.raw,
                   opBefore |-> last.op]
  /\ UNCHANGED <<defaultCase, ser, chain, gor>>

\* lines 126-136: the outcomes of b.TransformArray(entities)
TransformArrayOutcomes(bb, entities) ==
  IF ~IsSequence(entities)
    THEN {[b |-> bb, ok |-> TRUE, slice |-> NilSlice, err |-> "non-slice",
           steps |-> <<>>]}
    ELSE {[b |-> o.b, ok |-> o.ok, slice |-> o.slice, err |-> "nil",
           steps |-> o.steps] :
            o \in ArrayLoop(bb, entities.elems, 1, NilSlice, <<>>)}

TransformArray(entities) ==
  /\ \E o \in TransformArrayOutcomes(b, entities) :
       /\ b' = o.b
       /\ last' = [op |-> "TransformArray",
                   arg |-> entities,
                   status |-> IF o.ok THEN "ok" ELSE "panic",
                   maps |-> o.slice.elems,
                   isNil |-> o.slice.isNil,
                   err |-> o.err,
                   steps |-> o.steps,
                   rawBefore |-> b.raw,
                   opBefore |-> "none"]
  /\ UNCHANGED <<defaultCase, ser, chain, gor>>

\* lines 138-144: panic(err) when TransformArray returns an error
MustTransformArray(entities) ==
  /\ \E o \in TransformArrayOutcomes(b, entities) :
       /\ b' = o.b
       /\ last' = [op |-> "MustTransformArray",
                   arg |-> entities,
                   status |-> IF o.ok /\ o.err = "nil" THEN "ok" ELSE "panic",
                   maps |-> o.slice.elems,
                   isNil |-> o.slice.isNil,
                   err |-> o.err,
                   steps |-> o.steps,
                   rawBefore |-> b.raw,
                   opBefore |-> "none"]
  /\ UNCHANGED <<defaultCase, ser, chain, gor>>

(***************************************************************************)
(* Transform called from goroutines that share the builder b (lines        *)
(* 120-124 and 167-177, statement by statement).  A goroutine writes       *)
(* b.raw, writes b.reflected, runs the modifiers one by one on its own     *)
(* mapping, converts the keys and returns.  Nothing in the code keeps the  *)
(* goroutines from interleaving; a modifier reads b.raw and b.reflected as *)
(* they are when it runs.  overlapped records that another call was under  *)
(* way at some time between the call and its return.                       *)
(***************************************************************************)
InFlight(g) == gor[g].pc \in {"bindRaw", "bindReflected", "run"}

\* a variant that binds the record on the first call alone
BindRawOnce(bb, entity) ==
  IF bb.raw = NilEntity THEN [bb EXCEPT !.raw = entity] ELSE bb

\* line 121: b.raw = entity
BindRaw(bb, entity) == [bb EXCEPT !.raw = entity]

\* line 122: b.reflected = reflect.Indirect(reflect.ValueOf(entity))
BindReflected(bb, entity) == [bb EXCEPT !.reflected = entity]

\* the goroutine calls b.Transform(entity)
GoTransform(g, entity) ==
  /\ ~InFlight(g)
  /\ gor' = [h \in Goroutines |->
               IF h = g
                 THEN [pc |-> "bindRaw", entity |-> entity, i |-> 1,
                       m |-> EmptyMap,
                       overlapped |-> \E h2 \in Goroutines \ {g} : InFlight(h2)]
               ELSE IF InFlight(h) THEN [gor[h] EXCEPT !.overlapped = TRUE]
               ELSE gor[h]]
  /\ UNCHANGED <<defaultCase, b, last, ser, chain>>

GoBindRaw(g) ==
  /\ gor[g].pc = "bindRaw"
  /\ b' = BindRaw(b, gor[g].entity)
  /\ gor' = [gor EXCEPT ![g].pc = "bindReflected"]
  /\ UNCHANGED <<defaultCase, last, ser, chain>>

GoBindReflected(g) ==
  /\ gor[g].pc = "bindReflected"
  /\ b' = BindReflected(b, gor[g].entity)
  /\ gor' = [gor EXCEPT ![g].pc = "run"]
  /\ UNCHANGED <<defaultCase, last, ser, chain>>

\* lines 169-171: result = modifier(result), for the next modifier
GoModifier(g) ==
  /\ gor[g].pc = "run"
  /\ gor[g].i <= Len(b.modifiers)
  /\ LET o == ApplyModifier(b, b.modifiers[gor[g].i], gor[g].m)
     IN  gor' = [gor EXCEPT ![g] =
                   IF o.ok THEN [@ EXCEPT !.i = @ + 1, !.m = o.m]
                   ELSE [@ EXCEPT !.pc = "panicked", !.m = EmptyMap]]
  /\ UNCHANGED <<defaultCase, b, last, ser, chain>>

\* lines 172-176: the keys through the key converter, and return
GoReturn(g) ==
  /\ gor[g].pc = "run"
  /\ gor[g].i > Len(b.modifiers)
  /\ \E nm \in (IF b.keyConverter # "nil"
                  THEN transformedResult(b, gor[g].m)
                  ELSE {gor[g].m}) :
       gor' = [gor EXCEPT ![g].pc = "done", ![g].m = nm]
  /\ UNCHANGED <<defaultCase, b, last, ser, chain>>

(***************************************************************************)
(* The construction-bound variant (lines 269-428): New(entity) binds the   *)
(* record, the ...If methods evaluate their predicate when they are called *)
(* and register the unconditional modifier or nothing, Result() runs the   *)
(* modifiers.                                                              *)
(***************************************************************************)
BoundPickAllModifier ==
  [kind |-> "PickAll", c |-> "none", keys |-> <<>>, value |-> ""]

BoundPickModifier(fields) ==
  [kind |-> "Pick", c |-> "none", keys |-> fields, value |-> ""]

BoundOmitModifier(fields) ==
  [kind |-> "Omit", c |-> "none", keys |-> fields, value |-> ""]

BoundAddModifier(field, value) ==
  [kind |-> "Add", c |-> "none", keys |-> <<field>>, value |-> value]

BoundAddFuncModifier(field, f) ==
  [kind |-> "AddFunc", c |-> f, keys |-> <<field>>, value |-> ""]

BoundConvertModifier(field, f) ==
  [kind |-> "Convert", c |-> f, keys |-> <<field>>, value |-> ""]

\* a variant that converts the value the mapping holds under the field, and
\* reads the record only when the mapping has none
ConvertFromMapping(ss, field, f, m) ==
  IF field \in DOMAIN m
    THEN Returned(MapSet(m, field, ApplyValueConverter(f, "", m[field])))
  ELSE IF field \notin DOMAIN ss.reflected THEN Panicked
  ELSE Returned(MapSet(m, field,
                       ApplyValueConverter(f, "", ss.reflected[field])))

\* lines 416-419: m[field] = f(s.reflected.FieldByName(field).Interface())
ConvertClosure(ss, field, f, m) ==
  IF field \notin DOMAIN ss.reflected THEN Panicked
  ELSE Returned(MapSet(m, field,
                       ApplyValueConverter(f, "", ss.reflected[field])))

\* the closures of lines 345-347, 352-357, 369-374, 386-389, 401-404, 416-419
BoundApplyModifier(ss, mod, m) ==
  CASE mod.kind = "PickAll" -> Returned(StructsMap(ss.raw))
    [] mod.kind = "Pick" -> PickLoop(ss, "identity", mod.keys, 1, m)
    [] mod.kind = "Omit" -> Returned(OmitLoop(mod.keys, 1, m))
    [] mod.kind = "Add" -> Returned(MapSet(m, mod.keys[1], mod.value))
    [] mod.kind = "AddFunc" ->
         Returned(MapSet(m, mod.keys[1],
                         ApplyValueConverter(mod.c, "", ss.raw)))
    [] mod.kind = "Convert" -> ConvertClosure(ss, mod.keys[1], mod.c, m)

\* lines 336-342: Result() runs the modifiers in list order from an empty
\* mapping
RECURSIVE BoundRunModifiers(_, _, _, _)
BoundRunModifiers(ss, i, m, steps) ==
  IF i > Len(ss.modifiers) THEN [ok |-> TRUE, m |-> m, steps |-> steps]
  ELSE
    LET o == BoundApplyModifier(ss, ss.modifiers[i], m)
    IN  IF o.ok THEN BoundRunModifiers(ss, i + 1, o.m, Append(steps, o.m))
        ELSE [ok |-> FALSE, m |-> EmptyMap, steps |-> steps]

\* a variant that registers the modifier whatever the predicate says
RegistersAlways(ss, p) == TRUE

\* if p(s.raw), in the ...If methods
Registers(ss, p) == ApplyPredicate(p, ss.raw)

BoundNew(entity) ==
  /\ ser' = BoundNewBase(entity)
  /\ chain' = <<>>
  /\ last' = BuilderCall("s.New")
  /\ UNCHANGED <<defaultCase, b, gor>>

\* s.modifiers = append(s.modifiers, mod); call is the call as it is made on
\* a transform-bound builder
BoundAppend(mod, call) ==
  /\ Len(chain) < MaxMods
  /\ ser' = [ser EXCEPT !.modifiers = Append(@, mod)]
  /\ chain' = Append(chain, call)
  /\ UNCHANGED <<defaultCase, b, gor>>

\* an ...If method called with a predicate that is false for s.raw: return s
BoundSkip(call) ==
  /\ Len(chain) < MaxMods
  /\ chain' = Append(chain, call)
  /\ UNCHANGED <<defaultCase, b, ser, gor>>

BoundPickAll ==
  /\ BoundAppend(BoundPickAllModifier, PickAllModifier)
  /\ last' = BuilderCall("s.PickAll")

BoundPick(fields) ==
  /\ BoundAppend(BoundPickModifier(fields), PickModifier(fields))
  /\ last' = BuilderCall("s.Pick")

BoundPickIf(p, fields) ==
  /\ IF Registers(ser, p)
       THEN BoundAppend(BoundPickModifier(fields), PickIfModifier(p, fields))
       ELSE BoundSkip(PickIfModifier(p, fields))
  /\ last' = BuilderCall("s.PickIf")

BoundOmit(fields) ==
  /\ BoundAppend(BoundOmitModifier(fields), OmitModifier(fields))
  /\ last' = BuilderCall("s.Omit")

BoundOmitIf(p, fields) ==
  /\ IF Registers(ser, p)
       THEN BoundAppend(BoundOmitModifier(fields), OmitIfModifier(p, fields))
       ELSE BoundSkip(OmitIfModifier(p, fields))
  /\ last' = BuilderCall("s.OmitIf")

BoundAdd(field, value) ==
  /\ BoundAppend(BoundAddModifier(field, value), AddModifier(field, value))
  /\ last' = BuilderCall("s.Add")

BoundAddIf(p, field, value) ==
  /\ IF Registers(ser, p)
       THEN BoundAppend(BoundAddModifier(field, value),
                        AddIfModifier(p, field, value))
       ELSE BoundSkip(AddIfModifier(p, field, value))
  /\ last' = BuilderCall("s.AddIf")

BoundAddFunc(field, f) ==
  /\ BoundAppend(BoundAddFuncModifier(field, f), AddFuncModifier(field, f))
  /\ last' = BuilderCall("s.AddFunc")

BoundAddFuncIf(p, field, f) ==
  /\ IF Registers(ser, p)
       THEN BoundAppend(BoundAddFuncModifier(field, f),
                        AddFuncIfModifier(p, field, f, ""))
       ELSE BoundSkip(AddFuncIfModifier(p, field, f, ""))
  /\ last' = BuilderCall("s.AddFuncIf")

BoundConvert(field, f) ==
  /\ BoundAppend(BoundConvertModifier(field, f),
                 PickFuncModifier(f, <<field>>))
  /\ last' = BuilderCall("s.Convert")

BoundConvertIf(p, field, f) ==
  /\ IF Registers(ser, p)
       THEN BoundAppend(BoundConvertModifier(field, f),
                        PickFuncIfModifier(p, f, <<field>>))
       ELSE BoundSkip(PickFuncIfModifier(p, f, <<field>>))
  /\ last' = BuilderCall("s.ConvertIf")

BoundResult ==
  /\ LET o == BoundRunModifiers(ser, 1, EmptyMap, <<EmptyMap>>)
     IN  last' = [op |-> "s.Result",
                  arg |-> [kind |-> "struct", elems |-> <<ser.raw>>],
                  status |-> IF o.ok THEN "ok" ELSE "panic",
                  maps |-> IF o.ok THEN <<o.m>> ELSE <<>>,
                  isNil |-> FALSE,
                  err |-> "nil",
                  steps |-> <<o.steps>>,
                  rawBefore |-> ser.raw,
                  opBefore |-> last.op]
  /\ UNCHANGED <<defaultCase, b, ser, chain, gor>>

(***************************************************************************)
(* Specifications.  Each takes the methods a group of properties is about, *)
(* with the arguments given to them.                                       *)
(***************************************************************************)
\* the unconditional methods
PickKeyLists == {<<Email>>, <<ID, Email>>, <<Nope>>}

OmitKeyLists == {<<f>> : f \in Fields} \cup {<<ID, Email>>, <<Nope>>}

Next ==
  \/ PickAll
  \/ \E keys \in PickKeyLists : Pick(keys)
  \/ PickFunc("quote", <<Email>>)
  \/ \E keys \in OmitKeyLists : Omit(keys)
  \/ \E key \in {Email, FullName} : Add(key, "lit")
  \/ AddFunc(FullName, "fullName")
  \/ \E entity \in Records : Transform(entity)

Spec == Init /\ [][Next]_vars

\* the conditional methods
NextIf ==
  \/ \E keys \in {<<Email>>, <<Nope>>} : Pick(keys)
  \/ \E keys \in {<<Email>>, <<Nope>>} : PickIf("hideEmail", keys)
  \/ \E keys \in {<<Email>>, <<Nope>>} : PickFunc("quote", keys)
  \/ \E keys \in {<<Email>>, <<Nope>>} : PickFuncIf("hideEmail", "quote", keys)
  \/ OmitIf("hideEmail", <<Email>>)
  \/ AddIf("hideEmail", FullName, "lit")
  \/ AddFuncIf("hideEmail", FullName, "fullName")
  \/ \E entity \in Records : Transform(entity)

SpecIf == Init /\ [][NextIf]_vars

\* one builder used for many records
NextArray ==
  \/ \E keys \in {<<Email>>, <<Nope>>} : Pick(keys)
  \/ OmitIf("hideEmail", <<Email>>)
  \/ UseSnakeCase
  \/ \E entity \in Records : Transform(entity)
  \/ \E entities \in EntitiesArgs : TransformArray(entities)
  \/ \E entities \in EntitiesArgs : MustTransformArray(entities)

SpecArray == Init /\ [][NextArray]_vars

\* key converters, installed before or after the modifiers, and the default
\* case
NextKeys ==
  \/ PickAll
  \/ Pick(<<Email>>)
  \/ Add(email, "lit")
  \/ ConvertKeys("dummy")
  \/ UsePascalCase
  \/ UseCamelCase
  \/ UseSnakeCase
  \/ \E caseType \in KeyCases : SetDefaultCase(caseType)
  \/ New
  \/ \E entity \in Records : Transform(entity)

SpecKeys == Init /\ [][NextKeys]_vars

\* the construction-bound builder
NextBound ==
  \/ \E entity \in Records : BoundNew(entity)
  \/ BoundPickAll
  \/ \E fields \in {<<Email>>, <<Nope>>} : BoundPick(fields)
  \/ BoundPickIf("hideEmail", <<Nope>>)
  \/ BoundOmit(<<Email>>)
  \/ BoundOmitIf("hideEmail", <<Email>>)
  \/ BoundAdd(Email, "lit")
  \/ BoundAddIf("hideEmail", FullName, "lit")
  \/ BoundAddFunc(FullName, "fullName")
  \/ BoundAddFuncIf("hideEmail", FullName, "fullName")
  \/ BoundConvert(Email, "quote")
  \/ BoundConvertIf("hideEmail", Email, "quote")
  \/ BoundResult

SpecBound == Init /\ [][NextBound]_vars

\* every method that registers a modifier, on a builder that may have a key
\* converter; the methods that call one another are given arguments with
\* which they register the same modifier
NextChain ==
  \/ PickAll
  \/ Pick(<<ID>>)
  \/ PickIf("hideEmail", <<Email>>)
  \/ PickFunc("identity", <<ID>>)
  \/ PickFuncIf("hideEmail", "identity", <<Email>>)
  \/ Omit(<<Email>>)
  \/ OmitIf("alwaysTrue", <<Email>>)
  \/ Add(Email, "lit")
  \/ AddIf("alwaysTrue", Email, "lit")
  \/ AddFunc(FullName, "fullName")
  \/ AddFuncIf("alwaysTrue", FullName, "fullName")
  \/ UseSnakeCase
  \/ \E entity \in Records : Transform(entity)

SpecChain == Init /\ [][NextChain]_vars

\* the builder of the examples (part_001 lines 58-70)
exampleSerializer ==
  [NewBase("NotSet") EXCEPT
     !.keyConverter = "snake",
     !.modifiers =
       <<PickModifier(<<ID, FirstName, LastName, Email>>),
         PickFuncModifier("format", <<CreatedAt, UpdatedAt>>),
         OmitIfModifier("hideEmail", <<Email>>),
         AddModifier(CurrentTime, currentTime),
         AddFuncModifier(FullName, "fullName")>>]

\* slices and arrays of example records, and the int of TestTransformArray
ExampleArgs ==
  {[kind |-> kd, elems |-> es] :
     kd \in {"slice", "array"}, es \in SeqsUpTo(ExampleRecords, MaxArr)}
    \cup {[kind |-> "int", elems |-> <<>>]}

InitExample ==
  /\ defaultCase = "NotSet"
  /\ b = exampleSerializer
  /\ last = BuilderCall("AddFunc")
  /\ ser = BoundNewBase(user)
  /\ chain = <<>>
  /\ gor = [g \in Goroutines |-> Idle]

NextExample ==
  \/ UseSnakeCase
  \/ \E entity \in ExampleRecords : Transform(entity)
  \/ \E entities \in ExampleArgs : TransformArray(entities)
  \/ \E entities \in ExampleArgs : MustTransformArray(entities)

SpecExample == InitExample /\ [][NextExample]_vars

\* no goroutine has called Transform yet
SettingUp == \A g \in Goroutines : gor[g].pc = "idle"

\* a builder set up by one goroutine and then used by two
NextConcurrent ==
  \/ SettingUp /\ Pick(<<FirstName>>)
  \/ SettingUp /\ PickIf("hideEmail", <<Email>>)
  \/ SettingUp /\ AddFunc(FullName, "fullName")
  \/ \E g \in Goroutines, entity \in Records : GoTransform(g, entity)
  \/ \E g \in Goroutines : GoBindRaw(g)
  \/ \E g \in Goroutines : GoBindReflected(g)
  \/ \E g \in Goroutines : GoModifier(g)
  \/ \E g \in Goroutines : GoReturn(g)

SpecConcurrent == Init /\ [][NextConcurrent]_vars

\* modifiers given original and cased names, on a builder with a key
\* converter
NextCased ==
  \/ UseSnakeCase
  \/ UseCamelCase
  \/ Pick(<<ID, FirstName>>)
  \/ \E keys \in {<<FirstName>>, <<FirstNameSnake>>, <<FirstNameCamel>>} :
       Omit(keys)
  \/ Add(FirstNameSnake, "lit")
  \/ \E entity \in Records : Transform(entity)

SpecCased == Init /\ [][NextCased]_vars

(***************************************************************************)
(* Properties                                                              *)
(***************************************************************************)
IsTransform == last.op = "Transform"

IsArrayCall == last.op \in {"TransformArray", "MustTransformArray"}

\* the call was given a slice or an array
GivenSequence == last.arg.kind \in {"slice", "array"}

\* for a Transform call: the record given, the mapping returned, and the
\* mappings the modifiers returned in turn (the first is the empty mapping
\* the run starts from)
TheRecord == last.arg.elems[1]

TheMap == last.maps[1]

TheSteps == last.steps[1]

Range(q) == {q[i] : i \in DOMAIN q}

\* the modifier always runs its body
Unconditional(mod) == mod.p = "alwaysTrue"

\* the modifier with its predicate replaced by alwaysTrue
AsUnconditional(mod) == [mod EXCEPT !.p = "alwaysTrue"]

\* the keys of the record a picking modifier cannot read
MissingKeys(mod, r) ==
  IF mod.kind = "PickFuncIf" THEN Range(mod.keys) \ DOMAIN r ELSE {}

\* the value a modifier stores under one of its keys
Written(mod, k, r) ==
  IF mod.kind = "PickFuncIf" THEN ApplyValueConverter(mod.c, "", r[k])
  ELSE ApplyValueConverter(mod.c, mod.value, r)

\* the last modifier of the list that names key k (0 when none does)
LastWriter(mods, k) ==
  LET named == {i \in DOMAIN mods : k \in Range(mods[i].keys)}
  IN  IF named = {} THEN 0 ELSE CHOOSE i \in named : \A j \in named : j <= i

AllKeys(mods) == UNION {Range(mods[i].keys) : i \in DOMAIN mods}

\* C1: with only Pick/PickFunc/Omit/Add/AddFunc modifiers registered,
\* Transform(record) panics exactly when a picked name is no field of the
\* record, and otherwise returns the mapping got by running the modifiers one
\* by one in registration order from the empty mapping, each on the mapping
\* the previous one returned: a key is in the result exactly when the last
\* modifier naming it is not an Omit, with the value that modifier writes.
\* Pick(x) then Omit(x) gives a mapping without x, Omit(x) then Pick(x) one
\* with x.
C1_RegistrationOrder ==
  (/\ IsTransform
   /\ b.keyConverter = "nil"
   /\ \A i \in DOMAIN b.modifiers :
        b.modifiers[i].kind # "PickAll" /\ Unconditional(b.modifiers[i]))
  =>
  LET mods == b.modifiers
      r == TheRecord
      missing == \E i \in DOMAIN mods : MissingKeys(mods[i], r) # {}
  IN  /\ (last.status = "panic") <=> missing
      /\ last.status = "ok" =>
           /\ Len(TheSteps) = Len(mods) + 1
           /\ TheSteps[1] = EmptyMap
           /\ \A i \in DOMAIN mods :
                ApplyModifier(b, mods[i], TheSteps[i]) = Returned(TheSteps[i + 1])
           /\ TheMap = TheSteps[Len(mods) + 1]
           /\ DOMAIN TheMap =
                {k \in AllKeys(mods) : mods[LastWriter(mods, k)].kind # "OmitIf"}
           /\ \A k \in DOMAIN TheMap :
                TheMap[k] = Written(mods[LastWriter(mods, k)], k, r)
           /\ mods = <<PickModifier(<<Email>>), OmitModifier(<<Email>>)>>
                => Email \notin DOMAIN TheMap
           /\ mods = <<OmitModifier(<<Email>>), PickModifier(<<Email>>)>>
                => Email \in DOMAIN TheMap /\ TheMap[Email] = r[Email]

\* a Transform with Pick(Email) then Omit(Email) registered, whose mapping
\* lacks Email
C1_Witness ==
  /\ IsTransform
  /\ last.status = "ok"
  /\ b.modifiers = <<PickModifier(<<ID, Email>>), OmitModifier(<<Email>>)>>
  /\ DOMAIN TheMap = {ID}

\* C2: every conditional modifier evaluates its predicate on the record of
\* the Transform call that runs it: where the predicate is true the modifier
\* does exactly what the unconditional modifier does (the same mapping, or
\* the same panic), and where it is false it returns the mapping it was
\* given, with the same keys and the same values.
C2_ConditionalModifier ==
  IsTransform =>
    LET mods == b.modifiers
        r == TheRecord
        ran == Len(TheSteps) - 1
    IN  /\ \A i \in 1..ran :
             IF ApplyPredicate(mods[i].p, r)
               THEN ApplyModifier(b, AsUnconditional(mods[i]), TheSteps[i])
                      = Returned(TheSteps[i + 1])
               ELSE TheSteps[i + 1] = TheSteps[i]
        /\ last.status = "panic" =>
             /\ ran < Len(mods)
             /\ ApplyPredicate(mods[ran + 1].p, r)
             /\ ApplyModifier(b, AsUnconditional(mods[ran + 1]), TheSteps[ran + 1])
                  = Panicked
        /\ last.status = "ok" => ran = Len(mods)

\* a Transform of a record whose HideEmail is false, in which a conditional
\* modifier that would have changed a non-empty mapping left it as it was,
\* the predicate having been true for the record bound before the call
C2_Witness ==
  /\ IsTransform
  /\ last.status = "ok"
  /\ ~ApplyPredicate("hideEmail", TheRecord)
  /\ last.rawBefore # NilEntity
  /\ ApplyPredicate("hideEmail", last.rawBefore)
  /\ \E i \in DOMAIN b.modifiers :
       /\ b.modifiers[i] = OmitIfModifier("hideEmail", <<Email>>)
       /\ Email \in DOMAIN TheSteps[i]
       /\ TheSteps[i + 1] = TheSteps[i]

\* the key under which the builder returns key k
Cased(k) ==
  IF b.keyConverter = "nil" THEN k ELSE ApplyKeyConverter(b.keyConverter, k)

\* C3: a builder holding Pick(Email) then OmitIf(hideEmail, Email) decides
\* the omission for each record anew, whatever it transformed before: in the
\* result of Transform, and in every element of the result of TransformArray
\* and MustTransformArray, the Email key is absent for a record whose
\* HideEmail is true and present, with the record's value, for one whose
\* HideEmail is false.
C3_PredicatePerCall ==
  (/\ IsTransform \/ IsArrayCall
   /\ last.status = "ok"
   /\ b.modifiers = <<PickModifier(<<Email>>),
                      OmitIfModifier("hideEmail", <<Email>>)>>)
  =>
  /\ Len(last.maps) = Len(last.arg.elems)
  /\ \A n \in DOMAIN last.arg.elems :
       LET r == last.arg.elems[n]
       IN  IF ApplyPredicate("hideEmail", r)
             THEN Cased(Email) \notin DOMAIN last.maps[n]
             ELSE /\ Cased(Email) \in DOMAIN last.maps[n]
                  /\ last.maps[n][Cased(Email)] = r[Email]

\* one TransformArray over a record that hides its email and one that does
\* not, on a builder that had the hiding record bound before the call
C3_Witness ==
  /\ last.op = "TransformArray"
  /\ last.status = "ok"
  /\ b.modifiers = <<PickModifier(<<Email>>),
                     OmitIfModifier("hideEmail", <<Email>>)>>
  /\ last.rawBefore = user
  /\ last.arg.elems = <<otherUser, user>>
  /\ DOMAIN last.maps[1] = {Cased(Email)}
  /\ DOMAIN last.maps[2] = {}

\* a builder just made, given the modifiers and the key converter of b
FreshBuilder ==
  [NewBase("NotSet") EXCEPT !.modifiers = b.modifiers,
                            !.keyConverter = b.keyConverter]

\* C4: whatever the builder transformed before, Transform(r) ends as it
\* does on a freshly made builder with the same modifiers and key converter:
\* the same panic or the same mapping, built up from the empty mapping, and
\* every value picked into it is the value of r's own field.
C4_IndependentCalls ==
  IsTransform =>
    /\ TheSteps[1] = EmptyMap
    /\ \E o \in TransformOutcomes(FreshBuilder, TheRecord) :
         /\ o.ok = (last.status = "ok")
         /\ o.ok => last.maps = <<o.m>>
         /\ o.steps = TheSteps
    /\ last.status = "ok" =>
         \A k \in DOMAIN TheRecord :
           Cased(k) \in DOMAIN TheMap => TheMap[Cased(k)] = TheRecord[k]

\* a Transform on a builder that had another record bound by an earlier
\* call, returning a mapping with the email of its own record
C4_Witness ==
  /\ IsTransform
  /\ last.status = "ok"
  /\ last.rawBefore = user
  /\ TheRecord = otherUser
  /\ Cased(Email) \in DOMAIN TheMap
  /\ TheMap[Cased(Email)] = otherUser[Email]

\* C5: TransformArray of a slice or array of n records returns a nil error,
\* and n mappings of which the i-th is what Transform returns for the i-th
\* record; it returns at all exactly when Transform returns for every one of
\* the records.
C5_TransformArrayElementwise ==
  (last.op = "TransformArray" /\ GivenSequence) =>
    LET elems == last.arg.elems
    IN  /\ last.err = "nil"
        /\ (last.status = "ok") <=>
             \A i \in DOMAIN elems :
               \A o \in TransformOutcomes(FreshBuilder, elems[i]) : o.ok
        /\ last.status = "ok" =>
             /\ Len(last.maps) = Len(elems)
             /\ \A i \in DOMAIN elems :
                  \E o \in TransformOutcomes(FreshBuilder, elems[i]) :
                    o.ok /\ last.maps[i] = o.m

\* a TransformArray of two different records that returns two different
\* mappings
C5_Witness ==
  /\ last.op = "TransformArray"
  /\ last.status = "ok"
  /\ last.arg.elems = <<user, otherUser>>
  /\ Len(last.maps) = 2
  /\ last.maps[1] # last.maps[2]

\* C6 (as claimed): for an empty slice or array, TransformArray and
\* MustTransformArray return a slice that is not nil and has length 0.
C6_EmptyInputNotNil ==
  (/\ IsArrayCall
   /\ GivenSequence
   /\ last.arg.elems = <<>>
   /\ last.status = "ok")
  => ~last.isNil /\ Len(last.maps) = 0

\* C7: given something that is neither a slice nor an array, TransformArray
\* returns an error and a nil result, runs no modifier and leaves the source
\* record of the builder as it was; MustTransformArray panics.
C7_NonSequence ==
  (IsArrayCall /\ ~GivenSequence) =>
    /\ last.err # "nil"
    /\ last.isNil
    /\ last.maps = <<>>
    /\ last.steps = <<>>
    /\ b.raw = last.rawBefore
    /\ b.reflected = last.rawBefore
    /\ last.op = "TransformArray" => last.status = "ok"
    /\ last.op = "MustTransformArray" => last.status = "panic"

\* MustTransformArray of an int on a builder with modifiers and with a
\* record bound by an earlier call
C7_Witness ==
  /\ last.op = "MustTransformArray"
  /\ last.arg.kind = "int"
  /\ last.status = "panic"
  /\ Len(b.modifiers) > 0
  /\ b.raw = user

C9_LastWriteWins ==
  (/\ IsTransform
   /\ b.keyConverter = "nil"
   /\ Len(b.modifiers) >= 2
   /\ b.modifiers[1] = PickAllModifier
   /\ b.modifiers[2].kind = "OmitIf"
   /\ Unconditional(b.modifiers[2]))
  =>
  LET omitted == Range(b.modifiers[2].keys)
      r == TheRecord
  IN  /\ Len(b.modifiers) = 2 =>
           /\ last.status = "ok"
           /\ DOMAIN TheMap = (DOMAIN r) \ omitted
           /\ \A f \in DOMAIN TheMap : TheMap[f] = r[f]
      /\ (/\ Len(b.modifiers) = 3
          /\ b.modifiers[3].kind = "PickFuncIf"
          /\ b.modifiers[3].c = "identity"
          /\ Unconditional(b.modifiers[3])
          /\ Range(b.modifiers[3].keys) \subseteq DOMAIN r)
         =>
           /\ last.status = "ok"
           /\ DOMAIN TheMap =
                ((DOMAIN r) \ omitted) \cup Range(b.modifiers[3].keys)
           /\ \A f \in DOMAIN TheMap : TheMap[f] = r[f]

\* a Transform with PickAll, Omit(ID, Email), Pick(Email) registered: Email
\* is back with the record's value and ID is still omitted
C9_Witness ==
  /\ IsTransform
  /\ last.status = "ok"
  /\ b.modifiers = <<PickAllModifier, OmitModifier(<<ID, Email>>),
                     PickModifier(<<Email>>)>>
  /\ DOMAIN TheMap = Fields \ {ID}
  /\ TheMap[Email] = TheRecord[Email]

\* the first modifier of the list that picks a name that is no field of r
\* while its predicate is true for r (0 when there is none)
FirstFailing(mods, r) ==
  LET failing == {i \in DOMAIN mods :
                    ApplyPredicate(mods[i].p, r) /\ MissingKeys(mods[i], r) # {}}
  IN  IF failing = {} THEN 0 ELSE CHOOSE i \in failing : \A j \in failing : i <= j

\* C10: registering a Pick/PickFunc/PickIf/PickFuncIf never fails, whatever
\* the names.  Transform fails, returning no mapping, exactly when a picking
\* modifier whose predicate is true for the record names something that is
\* no field of the record, and it fails in the first such modifier, after
\* the modifiers before it have run; a picking modifier whose predicate is
\* false for the record does not fail.
C10_NoSuchField ==
  /\ ~(IsTransform \/ IsArrayCall) => last.status = "ok"
  /\ IsTransform =>
       LET failing == FirstFailing(b.modifiers, TheRecord)
       IN  /\ (last.status = "panic") <=> failing # 0
           /\ last.status = "panic" =>
                /\ last.maps = <<>>
                /\ Len(TheSteps) = failing
           /\ last.status = "ok" => Len(last.maps) = 1

\* a Transform that failed in its third modifier, a Pick of a name that is
\* no field, after a PickIf of that name whose predicate was false
C10_Witness ==
  /\ IsTransform
  /\ last.status = "panic"
  /\ Len(b.modifiers) = 3
  /\ b.modifiers[2] = PickIfModifier("hideEmail", <<Nope>>)
  /\ b.modifiers[3] = PickModifier(<<Nope>>)
  /\ Len(TheSteps) = 3

\* the mapping the modifiers of a Transform call produced, before the keys
\* were converted
TheModified == TheSteps[Len(TheSteps)]

\* C11: a Transform that returns gives the mapping the complete modifier
\* list produced with every key sent through the builder's key converter
\* once: the returned keys are exactly the converted keys, each returned
\* value is the value the modifiers stored under a key that converts to it
\* (two keys that convert to the same key leave one entry), and where no
\* other key converts to the same key the entry k -> v is returned as
\* converter(k) -> v.  This is so whether the converter was installed
\* before or after the modifiers were registered.  A builder without a
\* converter returns the modifiers' mapping itself.
C11_KeyConverterOnce ==
  (IsTransform /\ last.status = "ok") =>
    LET m0 == TheModified
        conv(k) == ApplyKeyConverter(b.keyConverter, k)
    IN  /\ Len(TheSteps) = Len(b.modifiers) + 1
        /\ b.keyConverter = "nil" => TheMap = m0
        /\ b.keyConverter # "nil" =>
             /\ DOMAIN TheMap = {conv(k) : k \in DOMAIN m0}
             /\ \A nk \in DOMAIN TheMap :
                  \E k \in DOMAIN m0 : conv(k) = nk /\ TheMap[nk] = m0[k]
             /\ \A k \in DOMAIN m0 :
                  (\A k2 \in DOMAIN m0 : conv(k2) = conv(k) => k2 = k)
                    => TheMap[conv(k)] = m0[k]

\* a Transform made right after ConvertKeys, on a builder that already had
\* its modifiers: every key of the record comes back with the prefix, none
\* without it and none with the prefix twice
C11_Witness ==
  /\ IsTransform
  /\ last.status = "ok"
  /\ last.opBefore = "ConvertKeys"
  /\ b.modifiers = <<PickAllModifier>>
  /\ DOMAIN TheMap = {Dummy(f) : f \in Fields}
  /\ TheMap[Dummy(ID)] = TheRecord[ID]

\* the step is a call of the method op
Called(op) == last'.op = op /\ (last' # last \/ b' # b \/ defaultCase' # defaultCase)

\* C12: New() gives a builder whose key converter is that of the default
\* case as it is when New is called (none for NotSet, the snake, camel or
\* pascal converter for the three cases); SetDefaultCase changes the default
\* and nothing of the builder that exists; a Use...Case or ConvertKeys call
\* replaces the builder's converter whatever the default is; no other call
\* changes the converter, and Transform cases the keys with the builder's
\* converter, not with the default.
C12_DefaultCaseAtConstruction ==
  [][/\ Called("New") =>
          /\ defaultCase' = defaultCase
          /\ defaultCase = "NotSet" => b'.keyConverter = "nil"
          /\ defaultCase = "SnakeCase" => b'.keyConverter = "snake"
          /\ defaultCase = "CamelCase" => b'.keyConverter = "camel"
          /\ defaultCase = "PascalCase" => b'.keyConverter = "pascal"
     /\ Called("SetDefaultCase") => b' = b
     /\ defaultCase' # defaultCase => Called("SetDefaultCase")
     /\ Called("UseSnakeCase") => b'.keyConverter = "snake"
     /\ Called("UseCamelCase") => b'.keyConverter = "camel"
     /\ Called("UsePascalCase") => b'.keyConverter = "pascal"
     /\ Called("ConvertKeys") => b'.keyConverter = "dummy"
     /\ b'.keyConverter # b.keyConverter =>
          \/ Called("New") \/ Called("UseSnakeCase") \/ Called("UseCamelCase")
          \/ Called("UsePascalCase") \/ Called("ConvertKeys")
     /\ (Called("Transform") /\ last'.status = "ok") =>
          DOMAIN last'.maps[1] =
            {IF b.keyConverter = "nil" THEN k
             ELSE ApplyKeyConverter(b.keyConverter, k) :
               k \in DOMAIN last'.steps[1][Len(last'.steps[1])]}
    ]_vars

\* a Transform made right after SetDefaultCase(SnakeCase) on a builder made
\* while the default was NotSet: the keys come back as the fields are named
C12_Witness ==
  /\ IsTransform
  /\ last.status = "ok"
  /\ last.opBefore = "SetDefaultCase"
  /\ defaultCase = "SnakeCase"
  /\ b.keyConverter = "nil"
  /\ b.modifiers = <<PickAllModifier>>
  /\ DOMAIN TheMap = Fields

IsResult == last.op = "s.Result"

\* a transform-bound builder given the calls made on the construction-bound
\* builder, with no key converter
ChainBuilder == [NewBase("NotSet") EXCEPT !.modifiers = chain]

\* the mapping m with the converted field of record r stored under each key
RECURSIVE WithConverted(_, _, _, _, _)
WithConverted(m, c, keys, i, r) ==
  IF i > Len(keys) THEN m
  ELSE WithConverted(MapSet(m, keys[i], ApplyValueConverter(c, "", r[keys[i]])),
                     c, keys, i + 1, r)

\* C13: in a Result() run, a Convert(key, c) modifier given any mapping
\* returns that mapping with c(record.key) stored under key, the other
\* entries as they were, whether the mapping had no entry for key, the
\* picked field, or a value stored by Add; it panics only when key is no
\* field of the record.  The same holds for PickFunc(c, key) when the same
\* calls are made on a transform-bound builder and run by Transform on the
\* record.
C13_ConvertReadsRecord ==
  IsResult =>
    LET r == ser.raw
        mods == ser.modifiers
        ran == Len(TheSteps) - 1
        run == RunModifiers(Rebind(ChainBuilder, r), 1, EmptyMap, <<EmptyMap>>)
    IN  /\ \A i \in 1..ran :
             mods[i].kind = "Convert" =>
               /\ mods[i].keys[1] \in DOMAIN r
               /\ TheSteps[i + 1] =
                    MapSet(TheSteps[i], mods[i].keys[1],
                           ApplyValueConverter(mods[i].c, "", r[mods[i].keys[1]]))
        /\ (last.status = "panic" /\ mods[ran + 1].kind = "Convert")
             => mods[ran + 1].keys[1] \notin DOMAIN r
        /\ \A i \in 1..(Len(run.steps) - 1) :
             (chain[i].kind = "PickFuncIf" /\ ApplyPredicate(chain[i].p, r)) =>
               /\ Range(chain[i].keys) \subseteq DOMAIN r
               /\ run.steps[i + 1] =
                    WithConverted(run.steps[i], chain[i].c, chain[i].keys, 1, r)

\* a Result() in which Convert(Email, quote) ran on a mapping whose Email was
\* the literal stored by Add, and stored the quoted email of the record
C13_Witness ==
  /\ IsResult
  /\ last.status = "ok"
  /\ \E i \in DOMAIN ser.modifiers :
       /\ ser.modifiers[i] = BoundConvertModifier(Email, "quote")
       /\ Email \in DOMAIN TheSteps[i]
       /\ TheSteps[i][Email] = "lit"
       /\ TheSteps[i + 1][Email] = "<" \o ser.raw[Email] \o ">"

\* the methods that register a modifier, each with the kind of the modifier
\* it registers
Registering ==
  [PickAll |-> "PickAll", Pick |-> "PickFuncIf", PickIf |-> "PickFuncIf",
   PickFunc |-> "PickFuncIf", PickFuncIf |-> "PickFuncIf",
   Omit |-> "OmitIf", OmitIf |-> "OmitIf", Add |-> "AddFuncIf",
   AddIf |-> "AddFuncIf", AddFunc |-> "AddFuncIf", AddFuncIf |-> "AddFuncIf"]

\* C14: a call of PickAll, Pick, PickIf, PickFunc, PickFuncIf, Omit, OmitIf,
\* Add, AddIf, AddFunc or AddFuncIf changes the builder it is called on: the
\* modifier list grows by one modifier of the method's kind at its end, the
\* modifiers registered before stay as they were and in their order, and
\* the key converter, the bound record and the default case stay as they
\* were.  Nothing but such a call changes the list, and a Transform that
\* returns has run every modifier of the list, one after the other.
C14_BuilderMutatedInPlace ==
  [][/\ \A op \in DOMAIN Registering :
          Called(op) =>
            /\ Len(b'.modifiers) = Len(b.modifiers) + 1
            /\ SubSeq(b'.modifiers, 1, Len(b.modifiers)) = b.modifiers
            /\ b'.modifiers[Len(b'.modifiers)].kind = Registering[op]
            /\ b'.keyConverter = b.keyConverter
            /\ b'.raw = b.raw
            /\ b'.reflected = b.reflected
            /\ defaultCase' = defaultCase
     /\ b'.modifiers # b.modifiers => \E op \in DOMAIN Registering : Called(op)
     /\ (Called("Transform") /\ last'.status = "ok") =>
          LET steps == last'.steps[1]
          IN  /\ Len(steps) = Len(b.modifiers) + 1
              /\ \A i \in DOMAIN b.modifiers :
                   ApplyModifier(b', b.modifiers[i], steps[i])
                     = Returned(steps[i + 1])
    ]_vars

\* a Transform on a builder with a key converter and three modifiers, each
\* registered by its own call, that returns what the three leave
C14_Witness ==
  /\ IsTransform
  /\ last.status = "ok"
  /\ b.keyConverter = "snake"
  /\ b.modifiers = <<PickModifier(<<ID>>), AddModifier(Email, "lit"),
                     AddFuncModifier(FullName, "fullName")>>
  /\ DOMAIN TheMap = {Cased(ID), Cased(Email), Cased(FullName)}

\* C15: a Transform call during which no other Transform call on the
\* builder was under way returns what Transform returns for its own record
\* on a builder with these modifiers (or panics as it does).  Calls that
\* overlap are not covered: C15_Witness is a call for one record that
\* returned a value computed from the other record.
C15_SerializedCallsOwnRecord ==
  \A g \in Goroutines :
    (gor[g].pc \in {"done", "panicked"} /\ ~gor[g].overlapped) =>
      \E o \in TransformOutcomes(FreshBuilder, gor[g].entity) :
        /\ o.ok = (gor[g].pc = "done")
        /\ o.ok => gor[g].m = o.m

\* a Transform(user) that overlapped with a Transform(otherUser) and
\* returned the first name of user next to the full name of otherUser
C15_Witness ==
  \E g \in Goroutines :
    /\ gor[g].pc = "done"
    /\ gor[g].overlapped
    /\ gor[g].entity = user
    /\ FirstName \in DOMAIN gor[g].m
    /\ FullName \in DOMAIN gor[g].m
    /\ gor[g].m[FirstName] = user[FirstName]
    /\ gor[g].m[FullName] = otherUser[FirstName] \o " " \o otherUser[LastName]

\* C16 (as claimed): a Transform that returns has returned the one mapping
\* that Transform can return for this builder and this record, whatever the
\* key converter: any other call with the same builder and the same record
\* returns the same mapping.
C16_TransformDeterministic ==
  (IsTransform /\ last.status = "ok") =>
    \A o \in TransformOutcomes(FreshBuilder, TheRecord) :
      o.ok /\ o.m = TheMap

\* the mapping of the examples' output for record r, without the email
ExpectedExample(r) ==
  (<<"i", "d">> :> r[ID])
    @@ (<<"f", "i", "r", "s", "t", "_", "n", "a", "m", "e">> :> r[FirstName])
    @@ (<<"l", "a", "s", "t", "_", "n", "a", "m", "e">> :> r[LastName])
    @@ (<<"f", "u", "l", "l", "_", "n", "a", "m", "e">>
          :> r[FirstName] \o " " \o r[LastName])
    @@ (<<"c", "r", "e", "a", "t", "e", "d", "_", "a", "t">>
          :> "2015-05-13T15:30:00Z")
    @@ (<<"u", "p", "d", "a", "t", "e", "d", "_", "a", "t">>
          :> "2015-05-13T15:30:00Z")
    @@ (<<"c", "u", "r", "r", "e", "n", "t", "_", "t", "i", "m", "e">>
          :> currentTime)

\* C17: the builder of the examples (UseSnakeCase, Pick of ID, FirstName,
\* LastName and Email, PickFunc of the formatted CreatedAt and UpdatedAt,
\* OmitIf on HideEmail, Add of CurrentTime, AddFunc of FullName) returns,
\* from Transform and for each element given to TransformArray or
\* MustTransformArray, exactly the keys id, first_name, last_name,
\* full_name, created_at, updated_at and current_time with the record's
\* values, the formatted times and the time added, and no email key when
\* HideEmail is true; when HideEmail is false it returns the email key with
\* the record's email besides.
C17_EndToEndExample ==
  ((IsTransform \/ (IsArrayCall /\ GivenSequence)) /\ b.modifiers = exampleSerializer.modifiers
     /\ b.keyConverter = "snake")
  =>
  /\ last.status = "ok"
  /\ Len(last.maps) = Len(last.arg.elems)
  /\ \A n \in DOMAIN last.arg.elems :
       LET r == last.arg.elems[n]
       IN  IF r[HideEmail] = "true"
             THEN last.maps[n] = ExpectedExample(r)
             ELSE last.maps[n] =
                    ExpectedExample(r) @@ (<<"e", "m", "a", "i", "l">> :> r[Email])

\* TransformArray of the users of ArraySerializer: seven keys for the user
\* who hides the email, eight for the other
C17_Witness ==
  /\ last.op = "TransformArray"
  /\ last.status = "ok"
  /\ b.modifiers = exampleSerializer.modifiers
  /\ last.arg.elems = <<WithTimes(user), WithTimes(otherUser)>>
  /\ Cardinality(DOMAIN last.maps[1]) = 7
  /\ Cardinality(DOMAIN last.maps[2]) = 8
  /\ last.maps[1][<<"f", "u", "l", "l", "_", "n", "a", "m", "e">>] = "Foo Bar"
  /\ email \notin DOMAIN last.maps[1]
  /\ last.maps[2][email] = ""

C19_OmitAbsentKey ==
  IsTransform =>
    LET mods == b.modifiers
        ran == Len(TheSteps) - 1
    IN  /\ \A i \in 1..ran :
             mods[i].kind = "OmitIf" =>
               /\ DOMAIN TheSteps[i + 1] =
                    (DOMAIN TheSteps[i]) \ Range(mods[i].keys)
               /\ \A k \in DOMAIN TheSteps[i + 1] :
                    TheSteps[i + 1][k] = TheSteps[i][k]
               /\ Range(mods[i].keys) \cap DOMAIN TheSteps[i] = {}
                    => TheSteps[i + 1] = TheSteps[i]
        /\ last.status = "panic" => mods[ran + 1].kind # "OmitIf"
        /\ (\A i \in DOMAIN mods : mods[i].kind = "OmitIf")
             => last.status = "ok" /\ TheMap = EmptyMap

\* a Transform in which Omit of a name that is no field was given a mapping
\* with entries and returned it as it was
C19_Witness ==
  /\ IsTransform
  /\ last.status = "ok"
  /\ \E i \in DOMAIN b.modifiers :
       /\ b.modifiers[i] = OmitModifier(<<Nope>>)
       /\ TheSteps[i] # EmptyMap
       /\ TheSteps[i + 1] = TheSteps[i]
       /\ TheMap = TheSteps[i]

\* C20: Result() of the construction-bound builder made with New(record)
\* ends as Transform(record) ends on a transform-bound builder without key
\* converter on which the same calls were made: both panic or both return,
\* and then the same mapping.  The calls are Pick, PickIf, Omit, OmitIf, Add,
\* AddIf, AddFunc and AddFuncIf (and PickAll, and Convert and ConvertIf for
\* PickFunc and PickFuncIf); a call whose predicate is false for the record
\* registers nothing on the construction-bound builder.
C20_VariantsAgree ==
  IsResult =>
    /\ Len(ser.modifiers) <= Len(chain)
    /\ \E o \in TransformOutcomes(ChainBuilder, ser.raw) :
         /\ o.ok = (last.status = "ok")
         /\ o.ok => TheMap = o.m
    /\ \A o \in TransformOutcomes(ChainBuilder, ser.raw) :
         /\ o.ok = (last.status = "ok")
         /\ o.ok => TheMap = o.m

\* a Result() after three calls of which one, an ...If call whose predicate
\* is false for the record, registered nothing, returning a mapping with
\* entries
C20_Witness ==
  /\ IsResult
  /\ last.status = "ok"
  /\ Len(chain) = 3
  /\ Len(ser.modifiers) = 2
  /\ ~ApplyPredicate("hideEmail", ser.raw)
  /\ \E i \in DOMAIN chain : chain[i] = OmitIfModifier("hideEmail", <<Email>>)
  /\ Email \in DOMAIN TheMap

\* C21: on a builder with a key converter the modifiers still work on the
\* names as they are given.  An Omit returns the mapping it was given
\* without the entries stored under the names it lists, and with nothing
\* else removed.  When Omit(FirstName) is the last modifier, the result has
\* no entry that comes from FirstName: the cased key of FirstName is absent
\* unless another key of the mapping converts to it.  When the last modifier
\* is an Omit of the cased spelling (first_name under snake case, firstName
\* under camel case) and the mapping held FirstName and no entry under that
\* spelling, nothing is removed and the result has the cased key, with the
\* value of FirstName when no other key of the mapping converts to it.
C21_ModifiersUseUncasedNames ==
  (IsTransform /\ last.status = "ok" /\ b.keyConverter # "nil"
     /\ Len(b.modifiers) > 0)
  =>
  LET mods == b.modifiers
      n == Len(mods)
      m0 == TheModified
      before == TheSteps[n]
      conv(k) == ApplyKeyConverter(b.keyConverter, k)
      spelling == IF b.keyConverter = "snake" THEN FirstNameSnake
                  ELSE FirstNameCamel
  IN  /\ \A i \in DOMAIN mods :
           mods[i].kind = "OmitIf" =>
             /\ DOMAIN TheSteps[i + 1] =
                  (DOMAIN TheSteps[i]) \ Range(mods[i].keys)
             /\ \A k \in DOMAIN TheSteps[i + 1] :
                  TheSteps[i + 1][k] = TheSteps[i][k]
      /\ mods[n] = OmitModifier(<<FirstName>>) =>
           /\ FirstName \notin DOMAIN m0
           /\ (\A k \in DOMAIN m0 : conv(k) # conv(FirstName))
                => conv(FirstName) \notin DOMAIN TheMap
      /\ (/\ mods[n] = OmitModifier(<<spelling>>)
          /\ FirstName \in DOMAIN before
          /\ spelling \notin DOMAIN before)
         =>
           /\ m0 = before
           /\ spelling \in DOMAIN TheMap
           /\ (\A k \in (DOMAIN before) \ {FirstName} : conv(k) # spelling)
                => TheMap[spelling] = before[FirstName]

\* a Transform under snake case with Pick(ID, FirstName) and then
\* Omit(first_name): the result still has first_name, with the record's
\* first name
C21_Witness ==
  /\ IsTransform
  /\ last.status = "ok"
  /\ b.keyConverter = "snake"
  /\ b.modifiers = <<PickModifier(<<ID, FirstName>>),
                     OmitModifier(<<FirstNameSnake>>)>>
  /\ FirstNameSnake \in DOMAIN TheMap
  /\ TheMap[FirstNameSnake] = TheRecord[FirstName]

====
